---- MODULE Spec2Model ----
\* A model of the blog backend (blog/models.py, blog/serializers.py, blog/views.py):
\* two tables, Post and Comment, the serializers that validate request bodies and
\* shape responses, and the PostViewSet handlers with the nested comment routes.
EXTENDS Integers, Sequences, FiniteSets, TLC

VARIABLES posts, comments, nextPostId, nextCommentId, now, resp, inflight,
          users, script

vars == <<posts, comments, nextPostId, nextCommentId, now, resp, inflight,
         users, script>>

----------------------------------------------------------------------------
\* Bounds of the model.

\* Number of post rows ever inserted.
MaxPosts == 2
\* Number of comment rows ever inserted.
MaxComments == 2
\* Largest value of the clock.
MaxTime == 1

----------------------------------------------------------------------------
\* Text values. A string is a sequence of one-character strings.

Rep(c, n) == [i \in 1..n |-> c]

IsSpace(c) == c = " "

\* str.strip(): drop leading and trailing whitespace.
RECURSIVE LStrip(_)
LStrip(s) == IF s # <<>> /\ IsSpace(Head(s)) THEN LStrip(Tail(s)) ELSE s

RECURSIVE RStrip(_)
RStrip(s) ==
    IF s # <<>> /\ IsSpace(s[Len(s)]) THEN RStrip(SubSeq(s, 1, Len(s) - 1)) ELSE s

Strip(s) == RStrip(LStrip(s))

\* JSON values of a request body: a string, null or a number.
JStr(s) == [str |-> s]
JNull == [null |-> TRUE]
JNum(n) == [num |-> n]
IsNull(v) == "null" \in DOMAIN v

----------------------------------------------------------------------------
\* blog/models.py

\* Post.title = CharField(max_length=200)
TitleMaxLength == 200
\* Post.author, Comment.author = CharField(max_length=100)
AuthorMaxLength == 100

\* The CharFields carry a max_length; content is a TextField and has none.
HasMaxLength(f) == f \in {"title", "author"}

MaxLengthOf(f) == IF f = "title" THEN TitleMaxLength ELSE AuthorMaxLength

----------------------------------------------------------------------------
\* blog/serializers.py

\* PostSerializer.Meta: fields minus read_only_fields.
PostWritable == {"title", "content", "author"}
\* CommentSerializer.Meta: fields minus read_only_fields.
CommentWritable == {"content", "author"}

\* The outcome of validating one writable field of a request body: a CharField
\* with required=True, allow_null=False, allow_blank=False, trim_whitespace=True
\* and the model field's max_length.
FieldOutcome(data, f, partial) ==
    IF f \notin DOMAIN data THEN (IF partial THEN "skip" ELSE "required")
    ELSE IF IsNull(data[f]) THEN "null"
    ELSE IF Strip(data[f].str) = <<>> THEN "blank"
    ELSE IF HasMaxLength(f) /\ Len(Strip(data[f].str)) > MaxLengthOf(f)
         THEN "max_length"
    ELSE "ok"

\* Errors that stop at the first field that failed.
ErrorsFirst(writable, data, partial) ==
    LET bad == {f \in writable : FieldOutcome(data, f, partial) \notin {"ok", "skip"}}
        first == IF bad = {} THEN {} ELSE {CHOOSE f \in bad : TRUE}
    IN  [f \in first |-> FieldOutcome(data, f, partial)]

\* serializer.errors: field -> error code, for the fields that failed.
Errors(writable, data, partial) ==
    LET bad == {f \in writable : FieldOutcome(data, f, partial) \notin {"ok", "skip"}}
    IN  [f \in bad |-> FieldOutcome(data, f, partial)]

\* serializer.is_valid()
IsValid(writable, data, partial) == DOMAIN Errors(writable, data, partial) = {}

\* Validated data that keeps the text as sent.
ValidatedUntrimmed(writable, data, partial) ==
    LET ok == {f \in writable : FieldOutcome(data, f, partial) = "ok"}
    IN  [f \in ok |-> data[f].str]

\* serializer.validated_data: the writable fields supplied, whitespace trimmed;
\* keys that are read-only or unknown are dropped.
Validated(writable, data, partial) ==
    LET ok == {f \in writable : FieldOutcome(data, f, partial) = "ok"}
    IN  [f \in ok |-> Strip(data[f].str)]

\* PostSerializer(instance).data, for the row stored under id.
PostRepr(id, row) ==
    [id |-> id, title |-> row.title, content |-> row.content, author |-> row.author,
     created_at |-> row.created_at, updated_at |-> row.updated_at]

\* PostListSerializer(instance).data
PostListRepr(id, row) ==
    [id |-> id, title |-> row.title, content |-> row.content, author |-> row.author]

\* CommentSerializer(instance).data
CommentRepr(id, row) ==
    [id |-> id, content |-> row.content, author |-> row.author,
     created_at |-> row.created_at]

----------------------------------------------------------------------------
\* Request inputs.

vA == <<"a">>
vB == <<"b">>
vPadB == <<" ", "b", " ">>
vBlank == <<" ">>
vLongTitle == Rep("x", TitleMaxLength + 1)
vLongAuthor == Rep("y", AuthorMaxLength + 1)

\* Request bodies: any subset of the keys, each with one of its inputs.
Payloads(keys, In(_)) ==
    UNION {{d \in [ks -> UNION {In(f) : f \in ks}] :
               \A f \in ks : d[f] \in In(f)} : ks \in SUBSET keys}

\* Bodies for the post routes when the claims are about the fields of a post:
\* two values for title and for author, padded, blank and over-long values.
FieldInputs(f) ==
    CASE f = "title" -> {JStr(vA), JStr(vPadB), JStr(vLongTitle)}
      [] f = "content" -> {JStr(vA), JStr(vBlank)}
      [] f = "author" -> {JStr(vA), JStr(vPadB), JStr(vLongAuthor)}

FieldPayloads == Payloads(PostWritable, FieldInputs)

\* Bodies for the post routes when the claims are about rows and routes: each
\* field present or absent.
PostInputs(f) == {JStr(vA)}

PostPayloads == Payloads(PostWritable, PostInputs)

\* Bodies for PUT and PATCH there: all three fields, or the title alone.
TouchPayloads == {d \in PostPayloads : DOMAIN d \in {PostWritable, {"title"}}}

\* Bodies for POST /posts/{pk}/comments/.
CommentInputs(f) ==
    CASE f = "content" -> {JStr(vA)}
      [] f = "author" -> {JStr(vA), JStr(vLongAuthor)}

CommentPayloads == Payloads(CommentWritable, CommentInputs)

\* Ids a path can name: every id handed out so far and one that never was.
PostPks == 1..(MaxPosts + 1)
CommentPks == 1..(MaxComments + 1)

\* timezone.now(): the clock never goes back; it may stand still between reads.
ClockReads(from) == {t \in from..(from + 1) : t <= MaxTime}

Workers == {"w1", "w2"}
Idle == [pc |-> "idle"]
NoBody == [none |-> TRUE]
NoData == [x \in {} |-> JNull]

\* No response on its way to the client.
NoResponse ==
    [method |-> "NONE", route |-> "none", pk |-> 0, cid |-> 0,
     data |-> NoData, status |-> 0, body |-> NoBody]

\* The seed script before its first run.
NotRun ==
    [pc |-> "idle", username |-> "", i |-> 0, created_posts |-> <<>>,
     before |-> NoBody, after |-> NoBody, inrow |-> FALSE]

\* The views import Post and Comment alone: a request leaves the accounts and
\* the seed script as they are.
ApiOnly == UNCHANGED <<users, script>>

----------------------------------------------------------------------------
\* The state after migration: empty tables.

Init ==
    /\ posts = [i \in {} |-> [title |-> <<>>]]
    /\ comments = [i \in {} |-> [content |-> <<>>]]
    /\ nextPostId = 1
    /\ nextCommentId = 1
    /\ now = 0
    /\ resp = NoResponse
    /\ inflight = [w \in Workers |-> Idle]
    /\ users = {}
    /\ script = NotRun

Respond(method, route, pk, cid, data, status, body) ==
    resp' = [method |-> method, route |-> route, pk |-> pk, cid |-> cid,
             data |-> data, status |-> status, body |-> body]

\* Remove the keys ks from the function f.
Without(f, ks) == [i \in DOMAIN f \ ks |-> f[i]]

----------------------------------------------------------------------------
\* Storage operations (the ORM calls the handlers make).

\* Post.objects.create / serializer.save() of a new post: auto_now_add and
\* auto_now each read the clock, created_at first.
InsertPost(v, t1, t2) ==
    /\ posts' = posts @@ (nextPostId :>
          [title |-> v.title, content |-> v.content, author |-> v.author,
           created_at |-> t1, updated_at |-> t2])
    /\ nextPostId' = nextPostId + 1
    /\ now' = t2

\* An update that starts from an empty instance: what is not supplied is lost.
UpdatedRowFresh(row, v, t) ==
    [title |-> IF "title" \in DOMAIN v THEN v.title ELSE <<>>,
     content |-> IF "content" \in DOMAIN v THEN v.content ELSE <<>>,
     author |-> IF "author" \in DOMAIN v THEN v.author ELSE <<>>,
     created_at |-> row.created_at,
     updated_at |-> t]

\* A save without auto_now: updated_at stays as loaded.
UpdatedRowStale(row, v, t) ==
    [title |-> IF "title" \in DOMAIN v THEN v.title ELSE row.title,
     content |-> IF "content" \in DOMAIN v THEN v.content ELSE row.content,
     author |-> IF "author" \in DOMAIN v THEN v.author ELSE row.author,
     created_at |-> row.created_at,
     updated_at |-> row.updated_at]

\* The row serializer.update() builds: the supplied attributes set on the
\* instance, updated_at read from the clock (auto_now), the rest as loaded.
UpdatedRow(row, v, t) ==
    [title |-> IF "title" \in DOMAIN v THEN v.title ELSE row.title,
     content |-> IF "content" \in DOMAIN v THEN v.content ELSE row.content,
     author |-> IF "author" \in DOMAIN v THEN v.author ELSE row.author,
     created_at |-> row.created_at,
     updated_at |-> t]

\* Every comment, whatever its post.
CommentsOfAnyPost(pk) == DOMAIN comments

\* Comment.post = ForeignKey(Post, on_delete=CASCADE): the comments that go
\* with post pk.
CommentsOf(pk) == {c \in DOMAIN comments : comments[c].post = pk}

\* serializer.save(post=post) of a new comment. The row's updated_at is left
\* out of the model: no serializer shows it and no route updates a comment.
InsertComment(pk, v, t) ==
    /\ comments' = comments @@ (nextCommentId :>
          [post |-> pk, content |-> v.content, author |-> v.author, created_at |-> t])
    /\ nextCommentId' = nextCommentId + 1
    /\ now' = t

\* Post.Meta.ordering = ["-created_at"]: the orders a query may return the
\* posts in (rows with equal created_at come in any order).
Perms(S) ==
    {s \in [1..Cardinality(S) -> S] : \A i, j \in DOMAIN s : i # j => s[i] # s[j]}

PostOrderingsByUpdate ==
    {s \in Perms(DOMAIN posts) :
        \A i, j \in DOMAIN s : i < j => posts[s[i]].updated_at >= posts[s[j]].updated_at}

\* The orders of the rows S with the newest created_at first, built row by row.
RECURSIVE NewestFirst(_)
NewestFirst(S) ==
    IF S = {} THEN {<<>>}
    ELSE UNION {{<<x>> \o s : s \in NewestFirst(S \ {x})} :
                   x \in {y \in S : \A z \in S :
                              posts[y].created_at >= posts[z].created_at}}

PostOrderings == NewestFirst(DOMAIN posts)

\* Comment.Meta.ordering = ["created_at"], over post.comments.all().
CommentOrderings(pk) ==
    {s \in Perms(CommentsOf(pk)) :
        \A i, j \in DOMAIN s : i < j =>
            comments[s[i]].created_at <= comments[s[j]].created_at}

\* self.get_object(): the post the path names, or 404.
PostExists(pk) == pk \in DOMAIN posts

----------------------------------------------------------------------------
\* PostViewSet: the ModelViewSet operations.

\* POST /posts/
create(data) ==
    IF IsValid(PostWritable, data, FALSE)
    THEN /\ nextPostId <= MaxPosts
         /\ \E t1 \in ClockReads(now) : \E t2 \in ClockReads(t1) :
                InsertPost(Validated(PostWritable, data, FALSE), t1, t2)
         /\ Respond("POST", "create", nextPostId, 0, data, 201,
                    PostRepr(nextPostId, posts'[nextPostId]))
         /\ UNCHANGED <<comments, nextCommentId, inflight>>
    ELSE /\ Respond("POST", "create", 0, 0, data, 400, Errors(PostWritable, data, FALSE))
         /\ UNCHANGED <<posts, comments, nextPostId, nextCommentId, now, inflight>>

\* GET /posts/{pk}/
retrieve(pk) ==
    /\ IF PostExists(pk)
       THEN Respond("GET", "retrieve", pk, 0, NoData, 200, PostRepr(pk, posts[pk]))
       ELSE Respond("GET", "retrieve", pk, 0, NoData, 404, NoBody)
    /\ UNCHANGED <<posts, comments, nextPostId, nextCommentId, now, inflight>>

\* An update that validates every request as a partial one.
update_lenient(pk, data, partial) ==
    LET method == IF partial THEN "PATCH" ELSE "PUT"
        route == IF partial THEN "partial_update" ELSE "update"
    IN  IF pk \notin DOMAIN posts
        THEN /\ Respond(method, route, pk, 0, data, 404, NoBody)
             /\ UNCHANGED <<posts, comments, nextPostId, nextCommentId, now, inflight>>
        ELSE IF ~IsValid(PostWritable, data, TRUE)
        THEN /\ Respond(method, route, pk, 0, data, 400,
                        Errors(PostWritable, data, TRUE))
             /\ UNCHANGED <<posts, comments, nextPostId, nextCommentId, now, inflight>>
        ELSE /\ \E t \in ClockReads(now) :
                    /\ posts' = [posts EXCEPT ![pk] =
                          UpdatedRow(posts[pk], Validated(PostWritable, data, TRUE), t)]
                    /\ now' = t
             /\ Respond(method, route, pk, 0, data, 200, PostRepr(pk, posts'[pk]))
             /\ UNCHANGED <<comments, nextPostId, nextCommentId, inflight>>

\* An update whose serializer has no read-only fields: a created_at in the
\* request body is written to the row.
update_writing_created_at(pk, data, partial) ==
    LET method == IF partial THEN "PATCH" ELSE "PUT"
        route == IF partial THEN "partial_update" ELSE "update"
    IN  IF pk \notin DOMAIN posts
        THEN /\ Respond(method, route, pk, 0, data, 404, NoBody)
             /\ UNCHANGED <<posts, comments, nextPostId, nextCommentId, now, inflight>>
        ELSE IF ~IsValid(PostWritable, data, partial)
        THEN /\ Respond(method, route, pk, 0, data, 400,
                        Errors(PostWritable, data, partial))
             /\ UNCHANGED <<posts, comments, nextPostId, nextCommentId, now, inflight>>
        ELSE /\ \E t \in ClockReads(now) :
                    /\ posts' = [posts EXCEPT ![pk] =
                          [UpdatedRow(posts[pk], Validated(PostWritable, data, partial), t)
                              EXCEPT !.created_at =
                                  IF "created_at" \in DOMAIN data
                                  THEN data.created_at.num ELSE @]]
                    /\ now' = t
             /\ Respond(method, route, pk, 0, data, 200, PostRepr(pk, posts'[pk]))
             /\ UNCHANGED <<comments, nextPostId, nextCommentId, inflight>>

\* PUT /posts/{pk}/ (partial = FALSE) and PATCH /posts/{pk}/ (partial = TRUE)
update(pk, data, partial) ==
    LET method == IF partial THEN "PATCH" ELSE "PUT"
        route == IF partial THEN "partial_update" ELSE "update"
    IN  IF ~PostExists(pk)
        THEN /\ Respond(method, route, pk, 0, data, 404, NoBody)
             /\ UNCHANGED <<posts, comments, nextPostId, nextCommentId, now, inflight>>
        ELSE IF ~IsValid(PostWritable, data, partial)
        THEN /\ Respond(method, route, pk, 0, data, 400,
                        Errors(PostWritable, data, partial))
             /\ UNCHANGED <<posts, comments, nextPostId, nextCommentId, now, inflight>>
        ELSE /\ \E t \in ClockReads(now) :
                    /\ posts' = [posts EXCEPT ![pk] =
                          UpdatedRow(posts[pk], Validated(PostWritable, data, partial), t)]
                    /\ now' = t
             /\ Respond(method, route, pk, 0, data, 200, PostRepr(pk, posts'[pk]))
             /\ UNCHANGED <<comments, nextPostId, nextCommentId, inflight>>

\* A delete that removes the post row alone.
destroy_post_only(pk) ==
    IF pk \notin DOMAIN posts
    THEN /\ Respond("DELETE", "destroy", pk, 0, NoData, 404, NoBody)
         /\ UNCHANGED <<posts, comments, nextPostId, nextCommentId, now, inflight>>
    ELSE /\ posts' = Without(posts, {pk})
         /\ Respond("DELETE", "destroy", pk, 0, NoData, 204, NoBody)
         /\ UNCHANGED <<comments, nextPostId, nextCommentId, now, inflight>>

\* DELETE /posts/{pk}/: instance.delete() removes the comments that reference
\* the post, then the post, in one transaction.
destroy(pk) ==
    IF ~PostExists(pk)
    THEN /\ Respond("DELETE", "destroy", pk, 0, NoData, 404, NoBody)
         /\ UNCHANGED <<posts, comments, nextPostId, nextCommentId, now, inflight>>
    ELSE /\ comments' = Without(comments, CommentsOf(pk))
         /\ posts' = Without(posts, {pk})
         /\ Respond("DELETE", "destroy", pk, 0, NoData, 204, NoBody)
         /\ UNCHANGED <<nextPostId, nextCommentId, now, inflight>>

\* The page size of the post list.
PageSize == 10

\* A page count that leaves the last, partly filled, page out.
NumPagesFloor(n) == IF n < PageSize THEN 1 ELSE n \div PageSize

\* The number of pages of n items (an empty list has one, empty, page).
NumPages(n) == IF n = 0 THEN 1 ELSE (n + PageSize - 1) \div PageSize

\* GET /posts/?page=page, the rows coming from the database in order s.
list(page, s) ==
    LET n == Len(s)
        first == (page - 1) * PageSize + 1
        last == IF page * PageSize < n THEN page * PageSize ELSE n
        ids == SubSeq(s, first, last)
    IN  /\ IF page \in 1..NumPages(n)
           THEN Respond("GET", "list", 0, 0, NoData, 200,
                    [count |-> n,
                     next |-> IF page < NumPages(n) THEN [page |-> page + 1] ELSE JNull,
                     previous |-> IF page > 1 THEN [page |-> page - 1] ELSE JNull,
                     results |-> [i \in DOMAIN ids |-> PostListRepr(ids[i], posts[ids[i]])]])
           ELSE Respond("GET", "list", 0, 0, NoData, 404, NoBody)
        /\ UNCHANGED <<posts, comments, nextPostId, nextCommentId, now, inflight>>

----------------------------------------------------------------------------
\* PostViewSet.comments: GET and POST /posts/{pk}/comments/

comments_get(pk, s) ==
    /\ IF ~PostExists(pk)
       THEN Respond("GET", "comments", pk, 0, NoData, 404, NoBody)
       ELSE Respond("GET", "comments", pk, 0, NoData, 200,
                [i \in DOMAIN s |-> CommentRepr(s[i], comments[s[i]])])
    /\ UNCHANGED <<posts, comments, nextPostId, nextCommentId, now, inflight>>

\* A handler that validates the body before it looks the post up.
comments_post_validating_first(pk, data) ==
    IF ~IsValid(CommentWritable, data, FALSE)
    THEN /\ Respond("POST", "comments", pk, 0, data, 400,
                    Errors(CommentWritable, data, FALSE))
         /\ UNCHANGED <<posts, comments, nextPostId, nextCommentId, now, inflight>>
    ELSE IF pk \notin DOMAIN posts
    THEN /\ Respond("POST", "comments", pk, 0, data, 404, NoBody)
         /\ UNCHANGED <<posts, comments, nextPostId, nextCommentId, now, inflight>>
    ELSE /\ nextCommentId <= MaxComments
         /\ \E t \in ClockReads(now) :
                InsertComment(pk, Validated(CommentWritable, data, FALSE), t)
         /\ Respond("POST", "comments", pk, nextCommentId, data, 201,
                    CommentRepr(nextCommentId, comments'[nextCommentId]))
         /\ UNCHANGED <<posts, nextPostId, inflight>>

comments_post(pk, data) ==
    IF ~PostExists(pk)
    THEN /\ Respond("POST", "comments", pk, 0, data, 404, NoBody)
         /\ UNCHANGED <<posts, comments, nextPostId, nextCommentId, now, inflight>>
    ELSE IF ~IsValid(CommentWritable, data, FALSE)
    THEN /\ Respond("POST", "comments", pk, 0, data, 400,
                    Errors(CommentWritable, data, FALSE))
         /\ UNCHANGED <<posts, comments, nextPostId, nextCommentId, now, inflight>>
    ELSE /\ nextCommentId <= MaxComments
         /\ \E t \in ClockReads(now) :
                InsertComment(pk, Validated(CommentWritable, data, FALSE), t)
         /\ Respond("POST", "comments", pk, nextCommentId, data, 201,
                    CommentRepr(nextCommentId, comments'[nextCommentId]))
         /\ UNCHANGED <<posts, nextPostId, inflight>>

\* A lookup by comment id alone.
CommentFoundAnyPost(pk, cid) == cid \in DOMAIN comments

\* get_object_or_404(Comment, pk=comment_id, post=post)
CommentFound(pk, cid) == cid \in DOMAIN comments /\ comments[cid].post = pk

\* PostViewSet.comment_detail: GET and DELETE /posts/{pk}/comments/{cid}/
comment_detail(method, pk, cid) ==
    IF ~PostExists(pk) \/ ~CommentFound(pk, cid)
    THEN /\ Respond(method, "comment_detail", pk, cid, NoData, 404, NoBody)
         /\ UNCHANGED <<posts, comments, nextPostId, nextCommentId, now, inflight>>
    ELSE IF method = "GET"
    THEN /\ Respond(method, "comment_detail", pk, cid, NoData, 200,
                    CommentRepr(cid, comments[cid]))
         /\ UNCHANGED <<posts, comments, nextPostId, nextCommentId, now, inflight>>
    ELSE /\ comments' = Without(comments, {cid})
         /\ Respond(method, "comment_detail", pk, cid, NoData, 204, NoBody)
         /\ UNCHANGED <<posts, nextPostId, nextCommentId, now, inflight>>

----------------------------------------------------------------------------
\* Requests served one at a time: the client sends the next request after it
\* has the response to the last.

Ready == resp = NoResponse

Receive ==
    /\ ~Ready
    /\ resp' = NoResponse
    /\ UNCHANGED <<posts, comments, nextPostId, nextCommentId, now, inflight>>
    /\ ApiOnly

Create == Ready /\ ApiOnly /\ \E data \in PostPayloads : create(data)

Retrieve == Ready /\ ApiOnly /\ \E pk \in PostPks : retrieve(pk)

Update == Ready /\ ApiOnly /\ \E pk \in PostPks, data \in TouchPayloads : update(pk, data, FALSE)

PartialUpdate == Ready /\ ApiOnly /\ \E pk \in PostPks, data \in TouchPayloads : update(pk, data, TRUE)

Destroy == Ready /\ ApiOnly /\ \E pk \in PostPks : destroy(pk)

List == Ready /\ ApiOnly /\ \E page \in 1..2, s \in PostOrderings : list(page, s)

CommentsGet == Ready /\ ApiOnly /\ \E pk \in PostPks :
                   IF PostExists(pk)
                   THEN \E s \in CommentOrderings(pk) : comments_get(pk, s)
                   ELSE comments_get(pk, <<>>)

CommentsPost == Ready /\ ApiOnly /\ \E pk \in PostPks, data \in CommentPayloads : comments_post(pk, data)

CommentDetail == Ready /\ ApiOnly /\ \E method \in {"GET", "DELETE"}, pk \in PostPks, cid \in CommentPks :
                     comment_detail(method, pk, cid)

\* The API with posts and comments, every route.
Next ==
    \/ Create
    \/ Retrieve
    \/ Update
    \/ PartialUpdate
    \/ Destroy
    \/ List
    \/ CommentsGet
    \/ CommentsPost
    \/ CommentDetail
    \/ Receive

Spec == Init /\ [][Next]_vars

----------------------------------------------------------------------------
\* The post routes alone, with the bodies that exercise the fields of a post.

FieldCreate == Ready /\ ApiOnly /\ \E data \in FieldPayloads : create(data)

FieldUpdate == Ready /\ ApiOnly /\ \E pk \in PostPks, data \in FieldPayloads : update(pk, data, FALSE)

FieldPartialUpdate ==
    Ready /\ ApiOnly /\ \E pk \in PostPks, data \in FieldPayloads : update(pk, data, TRUE)

\* The database the comment tests start from: one post with one comment, both
\* inserted through the ORM.
InitFixture ==
    /\ posts = (1 :> [title |-> vA, content |-> vA, author |-> vA,
                      created_at |-> 0, updated_at |-> 0])
    /\ comments = (1 :> [post |-> 1, content |-> vA, author |-> vA, created_at |-> 0])
    /\ nextPostId = 2
    /\ nextCommentId = 2
    /\ now = 0
    /\ resp = NoResponse
    /\ inflight = [w \in Workers |-> Idle]
    /\ users = {}
    /\ script = NotRun

NextFields ==
    \/ FieldCreate
    \/ Retrieve
    \/ FieldUpdate
    \/ FieldPartialUpdate
    \/ Destroy
    \/ List
    \/ Receive

SpecFields == InitFixture /\ [][NextFields]_vars

----------------------------------------------------------------------------
\* Requests in flight together: each worker serves one request and the workers
\* interleave at the calls into the database. POST /posts/{pk}/comments/ is
\* get_object(), then the INSERT; DELETE /posts/{pk}/ is get_object(), then
\* the transaction of instance.delete(): DELETE of the comments that reference
\* the post, DELETE of the post, COMMIT.

\* An INSERT that checks no reference.
ForeignKeyUnchecked(pk) == TRUE

\* Comment.post is a ForeignKey with a database constraint: a comment row can
\* be committed only while the post row it references exists.
ForeignKeyHolds(pk) == pk \in DOMAIN posts

\* The same constraint at the commit of a transaction that leaves the tables
\* ps and cs.
ConstraintHolds(ps, cs) == \A c \in DOMAIN cs : cs[c].post \in DOMAIN ps

SetInflight(w, v) == inflight' = [inflight EXCEPT ![w] = v]

\* comments(), POST: self.get_object()
CommentsLookup(w, pk, data) ==
    /\ inflight[w] = Idle
    /\ IF PostExists(pk)
       THEN /\ SetInflight(w, [pc |-> "comment_save", pk |-> pk, data |-> data])
            /\ UNCHANGED resp
       ELSE /\ Respond("POST", "comments", pk, 0, data, 404, NoBody)
            /\ UNCHANGED inflight
    /\ UNCHANGED <<posts, comments, nextPostId, nextCommentId, now>>

\* comments(), POST: serializer.is_valid(), serializer.save(post=post)
CommentsSave(w) ==
    LET pk == inflight[w].pk
        data == inflight[w].data
    IN  /\ inflight[w].pc = "comment_save"
        /\ SetInflight(w, Idle)
        /\ IF ~IsValid(CommentWritable, data, FALSE)
           THEN /\ Respond("POST", "comments", pk, 0, data, 400,
                           Errors(CommentWritable, data, FALSE))
                /\ UNCHANGED <<posts, comments, nextPostId, nextCommentId, now>>
           ELSE IF ~ForeignKeyHolds(pk)
           THEN \* IntegrityError, not handled: a server error
                /\ Respond("POST", "comments", pk, 0, data, 500, NoBody)
                /\ UNCHANGED <<posts, comments, nextPostId, nextCommentId, now>>
           ELSE /\ nextCommentId <= MaxComments
                /\ \E t \in ClockReads(now) :
                       InsertComment(pk, Validated(CommentWritable, data, FALSE), t)
                /\ Respond("POST", "comments", pk, nextCommentId, data, 201,
                           CommentRepr(nextCommentId, comments'[nextCommentId]))
                /\ UNCHANGED <<posts, nextPostId>>

\* destroy(): self.get_object()
DestroyLookup(w, pk) ==
    /\ inflight[w] = Idle
    /\ IF PostExists(pk)
       THEN /\ SetInflight(w, [pc |-> "destroy_comments", pk |-> pk])
            /\ UNCHANGED resp
       ELSE /\ Respond("DELETE", "destroy", pk, 0, NoData, 404, NoBody)
            /\ UNCHANGED inflight
    /\ UNCHANGED <<posts, comments, nextPostId, nextCommentId, now>>

\* instance.delete(), first statement of the transaction: the comments that
\* reference the post are deleted; nobody else sees it before the commit.
DestroyComments(w) ==
    /\ inflight[w].pc = "destroy_comments"
    /\ SetInflight(w, [pc |-> "destroy_post", pk |-> inflight[w].pk,
                       doomed |-> CommentsOf(inflight[w].pk)])
    /\ UNCHANGED <<posts, comments, nextPostId, nextCommentId, now, resp>>

\* instance.delete(), the post row and the commit: the constraint fails the
\* transaction when a comment committed meanwhile references the post.
DestroyPost(w) ==
    LET pk == inflight[w].pk
        doomed == inflight[w].doomed
    IN  /\ inflight[w].pc = "destroy_post"
        /\ SetInflight(w, Idle)
        /\ IF ConstraintHolds(Without(posts, {pk}), Without(comments, doomed))
           THEN /\ posts' = Without(posts, {pk})
                /\ comments' = Without(comments, doomed)
                /\ Respond("DELETE", "destroy", pk, 0, NoData, 204, NoBody)
           ELSE \* IntegrityError: the transaction is rolled back
                /\ Respond("DELETE", "destroy", pk, 0, NoData, 500, NoBody)
                /\ UNCHANGED <<posts, comments>>
        /\ UNCHANGED <<nextPostId, nextCommentId, now>>

\* The body of the comments POSTed while requests interleave: a full one.
ConcPayloads ==
    {d \in CommentPayloads : DOMAIN d = CommentWritable /\ \A f \in DOMAIN d : d[f] = JStr(vA)}

\* A step is taken once the last response has left: the response slot holds
\* one response, and taking it commutes with every step of the workers.
ConcCreate == Ready /\ ApiOnly /\ \E data \in TouchPayloads : create(data)

ConcCommentsLookup ==
    Ready /\ ApiOnly /\ \E w \in Workers, pk \in PostPks, data \in ConcPayloads :
                 CommentsLookup(w, pk, data)

ConcCommentsSave == Ready /\ ApiOnly /\ \E w \in Workers : CommentsSave(w)

ConcDestroyLookup == Ready /\ ApiOnly /\ \E w \in Workers, pk \in PostPks : DestroyLookup(w, pk)

ConcDestroyComments == Ready /\ ApiOnly /\ \E w \in Workers : DestroyComments(w)

ConcDestroyPost == Ready /\ ApiOnly /\ \E w \in Workers : DestroyPost(w)

NextConc ==
    \/ ConcCreate
    \/ ConcCommentsLookup
    \/ ConcCommentsSave
    \/ ConcDestroyLookup
    \/ ConcDestroyComments
    \/ ConcDestroyPost
    \/ Receive

SpecConc == Init /\ [][NextConc]_vars

----------------------------------------------------------------------------
\* Requests whose bodies carry the read-only fields of a post as well.

\* id, created_at and updated_at values no row has.
ReadOnlyBody ==
    [id |-> JNum(MaxPosts + 1), created_at |-> JNum(MaxTime + 1),
     updated_at |-> JNum(MaxTime + 1)]

\* Bodies for PUT and PATCH: with and without the read-only fields.
StampedPayloads == TouchPayloads \cup {d @@ ReadOnlyBody : d \in TouchPayloads}

StampedUpdate ==
    Ready /\ ApiOnly /\ \E pk \in PostPks, data \in StampedPayloads : update(pk, data, FALSE)

StampedPartialUpdate ==
    Ready /\ ApiOnly /\ \E pk \in PostPks, data \in StampedPayloads : update(pk, data, TRUE)

NextStamped ==
    \/ Create
    \/ Retrieve
    \/ StampedUpdate
    \/ StampedPartialUpdate
    \/ Destroy
    \/ CommentsPost
    \/ CommentDetail
    \/ Receive

SpecStamped == Init /\ [][NextStamped]_vars

----------------------------------------------------------------------------
\* The post list over storage filled as test_list_posts_pagination fills it:
\* n posts written one after the other, the clock ticking between them, for
\* every n up to a page and MaxPosts more.

MaxSeeded == PageSize + MaxPosts

InitPages ==
    \E n \in 0..MaxSeeded :
        /\ posts = [i \in 1..n |-> [title |-> vA, content |-> vA, author |-> vA,
                                   created_at |-> i, updated_at |-> i]]
        /\ comments = [i \in {} |-> [content |-> <<>>]]
        /\ nextPostId = n + 1
        /\ nextCommentId = 1
        /\ now = n
        /\ resp = NoResponse
        /\ inflight = [w \in Workers |-> Idle]
        /\ users = {}
        /\ script = NotRun

NextPages ==
    \/ List
    \/ Retrieve
    \/ Destroy
    \/ Receive

SpecPages == InitPages /\ [][NextPages]_vars

----------------------------------------------------------------------------
\* scripts/init_dev_data.py: the seed script, run while no request is handled.

\* posts_data: five posts, their titles distinct.
SeedPosts ==
    <<[title |-> <<"p", "1">>, content |-> <<"c", "1">>, author |-> <<"u", "1">>],
      [title |-> <<"p", "2">>, content |-> <<"c", "2">>, author |-> <<"u", "2">>],
      [title |-> <<"p", "3">>, content |-> <<"c", "3">>, author |-> <<"u", "3">>],
      [title |-> <<"p", "4">>, content |-> <<"c", "4">>, author |-> <<"u", "4">>],
      [title |-> <<"p", "5">>, content |-> <<"c", "5">>, author |-> <<"u", "5">>]>>

\* comments_data: post_index of each of the eleven comments.
SeedPostIndex == <<0, 0, 1, 1, 2, 2, 3, 3, 4, 4, 4>>

SeedLetters == <<"a", "b", "c", "d", "e", "f", "g", "h", "i", "j", "k">>

\* comments_data: content and author differ from comment to comment.
SeedComments ==
    [k \in DOMAIN SeedPostIndex |->
        [post_index |-> SeedPostIndex[k],
         content |-> <<"k", SeedLetters[k]>>,
         author |-> <<"w", SeedLetters[k]>>]]

\* DJANGO_SUPERUSER_USERNAME: the default.
Usernames == {"admin"}

\* What the script reads and writes.
Storage == [posts |-> posts, comments |-> comments, users |-> users]

ScriptResting == script.pc \in {"idle", "done", "crashed"}

\* main() is called. The run follows a completed run in a row when storage is
\* as that run left it and the environment is the same.
SeedMain(username) ==
    /\ ScriptResting
    /\ Ready
    /\ script' = [pc |-> "create_superuser", username |-> username, i |-> 1,
                  created_posts |-> <<>>, before |-> Storage, after |-> NoBody,
                  inrow |-> /\ script.pc = "done"
                            /\ script.after = Storage
                            /\ script.username = username]
    /\ UNCHANGED <<posts, comments, nextPostId, nextCommentId, now, resp, inflight, users>>

\* create_superuser()
create_superuser ==
    /\ script.pc = "create_superuser"
    /\ users' = IF script.username \in users THEN users ELSE users \cup {script.username}
    /\ script' = [script EXCEPT !.pc = "create_dummy_posts", !.i = 1]
    /\ UNCHANGED <<posts, comments, nextPostId, nextCommentId, now, resp, inflight>>

\* Post.objects.get_or_create(title=...): the rows get() matches.
PostsTitled(title) == {p \in DOMAIN posts : posts[p].title = title}

\* create_dummy_posts(), one round of its loop. get() raises
\* MultipleObjectsReturned when two rows match, and nothing catches it.
create_dummy_posts ==
    LET d == SeedPosts[script.i]
        found == PostsTitled(d.title)
        last == script.i = Len(SeedPosts)
        Continue(id) ==
            script' = [script EXCEPT
                !.created_posts = Append(@, id),
                !.i = IF last THEN 1 ELSE @ + 1,
                !.pc = IF last THEN "create_dummy_comments" ELSE @]
    IN  /\ script.pc = "create_dummy_posts"
        /\ IF Cardinality(found) > 1
           THEN /\ script' = [script EXCEPT !.pc = "crashed"]
                /\ UNCHANGED <<posts, nextPostId, now>>
           ELSE IF found # {}
           THEN /\ Continue(CHOOSE p \in found : TRUE)
                /\ UNCHANGED <<posts, nextPostId, now>>
           ELSE /\ \E t1 \in ClockReads(now) : \E t2 \in ClockReads(t1) :
                       InsertPost(d, t1, t2)
                /\ Continue(nextPostId)
        /\ UNCHANGED <<comments, nextCommentId, resp, inflight, users>>

\* Comment.objects.get_or_create(post=, content=, author=): the rows get() matches.
CommentsLike(post, content, author) ==
    {c \in DOMAIN comments : /\ comments[c].post = post
                             /\ comments[c].content = content
                             /\ comments[c].author = author}

\* create_dummy_comments(posts), one round of its loop; main() ends after the
\* last one.
create_dummy_comments ==
    LET d == SeedComments[script.i]
        post == script.created_posts[d.post_index + 1]
        found == CommentsLike(post, d.content, d.author)
        last == script.i = Len(SeedComments)
    IN  /\ script.pc = "create_dummy_comments"
        /\ IF Cardinality(found) > 1
           THEN /\ script' = [script EXCEPT !.pc = "crashed"]
                /\ UNCHANGED <<comments, nextCommentId, now>>
           ELSE /\ IF found # {}
                   THEN UNCHANGED <<comments, nextCommentId, now>>
                   ELSE \E t \in ClockReads(now) : InsertComment(post, d, t)
                /\ script' = [script EXCEPT
                       !.i = IF last THEN @ ELSE @ + 1,
                       !.pc = IF last THEN "done" ELSE @,
                       !.after = IF last
                                 THEN [posts |-> posts, comments |-> comments',
                                       users |-> users]
                                 ELSE @]
        /\ UNCHANGED <<posts, nextPostId, resp, inflight, users>>

\* Requests between the runs: posts and comments that may carry the title, or
\* the content and author, of the first seeded ones.
SeedTitles == {JStr(vA), JStr(SeedPosts[1].title)}

SeedBodies ==
    {[content |-> JStr(vA), author |-> JStr(vA)],
     [content |-> JStr(SeedComments[1].content), author |-> JStr(SeedComments[1].author)]}

SeedApiCreate ==
    Ready /\ ApiOnly /\ ScriptResting /\ \E title \in SeedTitles :
        create([title |-> title, content |-> JStr(vA), author |-> JStr(vA)])

SeedApiComment ==
    Ready /\ ApiOnly /\ ScriptResting /\ \E pk \in PostPks, data \in SeedBodies :
        comments_post(pk, data)

SeedApiDestroy == ScriptResting /\ Destroy

SeedRun == \E username \in Usernames : SeedMain(username)

NextSeed ==
    \/ SeedApiCreate
    \/ SeedApiComment
    \/ SeedApiDestroy
    \/ SeedRun
    \/ create_superuser
    \/ create_dummy_posts
    \/ create_dummy_comments
    \/ Receive

SpecSeed == Init /\ [][NextSeed]_vars

----------------------------------------------------------------------------
\* PATCH /posts/{pk}/ handled by two workers, step by step: the row is loaded
\* by get_object(), and serializer.save() writes the loaded instance back.

\* partial_update(): self.get_object()
PatchLookup(w, pk, data) ==
    /\ inflight[w] = Idle
    /\ IF PostExists(pk)
       THEN /\ SetInflight(w, [pc |-> "patch_save", pk |-> pk, data |-> data,
                               instance |-> posts[pk]])
            /\ UNCHANGED resp
       ELSE /\ Respond("PATCH", "partial_update", pk, 0, data, 404, NoBody)
            /\ UNCHANGED inflight
    /\ UNCHANGED <<posts, comments, nextPostId, nextCommentId, now>>

\* partial_update(): serializer.is_valid(), serializer.save(). update() sets
\* the validated attributes on the instance and instance.save() writes every
\* column of it: an UPDATE by primary key, and an INSERT of the row when the
\* UPDATE matched none (auto_now_add then reads the clock for created_at).
PatchSave(w) ==
    LET pk == inflight[w].pk
        data == inflight[w].data
        instance == inflight[w].instance
    IN  /\ inflight[w].pc = "patch_save"
        /\ SetInflight(w, Idle)
        /\ IF ~IsValid(PostWritable, data, TRUE)
           THEN /\ Respond("PATCH", "partial_update", pk, 0, data, 400,
                           Errors(PostWritable, data, TRUE))
                /\ UNCHANGED <<posts, now>>
           ELSE /\ \E t \in ClockReads(now) : \E t1 \in ClockReads(t) :
                   \E t2 \in ClockReads(t1) :
                       LET row == UpdatedRow(instance, Validated(PostWritable, data, TRUE), t)
                       IN  IF pk \in DOMAIN posts
                           THEN /\ posts' = [posts EXCEPT ![pk] = row]
                                /\ now' = t
                           ELSE /\ posts' = posts @@ (pk :>
                                      [row EXCEPT !.created_at = t1, !.updated_at = t2])
                                /\ now' = t2
                /\ Respond("PATCH", "partial_update", pk, 0, data, 200,
                           PostRepr(pk, posts'[pk]))
        /\ UNCHANGED <<comments, nextPostId, nextCommentId>>

\* PATCH bodies with one field each, and one that is refused.
PatchPayloads ==
    {[title |-> JStr(vB)], [author |-> JStr(vB)], [title |-> JStr(vBlank)]}

RacePatchLookup ==
    Ready /\ ApiOnly /\ \E w \in Workers, pk \in PostPks, data \in PatchPayloads :
        PatchLookup(w, pk, data)

RacePatchSave == Ready /\ ApiOnly /\ \E w \in Workers : PatchSave(w)

NextRace ==
    \/ ConcCreate
    \/ RacePatchLookup
    \/ RacePatchSave
    \/ Destroy
    \/ Receive

SpecRace == Init /\ [][NextRace]_vars

----------------------------------------------------------------------------
\* Properties.

\* The step that answers a request on the given route.
Answers(route) == Ready /\ resp'.route = route

\* C1: for distinct existing posts A and B and an existing comment C whose
\* stored parent is A, GET and DELETE on /posts/B/comments/C/ answer 404, and C
\* stays in storage, unchanged, under its post A, which stays too.
C1_WrongPostIs404 ==
    [][(/\ Answers("comment_detail")
        /\ resp'.pk \in DOMAIN posts
        /\ resp'.cid \in DOMAIN comments
        /\ comments[resp'.cid].post \in DOMAIN posts
        /\ comments[resp'.cid].post # resp'.pk)
       => (/\ resp'.status = 404
           /\ resp'.cid \in DOMAIN comments'
           /\ comments'[resp'.cid] = comments[resp'.cid]
           /\ comments[resp'.cid].post \in DOMAIN posts')]_vars

\* A DELETE through the wrong post was answered 404 and the comment is there.
C1_Witness ==
    /\ resp.route = "comment_detail"
    /\ resp.method = "DELETE"
    /\ resp.status = 404
    /\ resp.pk \in DOMAIN posts
    /\ resp.cid \in DOMAIN comments
    /\ comments[resp.cid].post \in DOMAIN posts \ {resp.pk}

\* C2: a DELETE of post P answered 204 removes P and every comment whose parent
\* is P and leaves every other post and every comment of another post as it
\* was; a post or comment id that is gone stays gone, and GET on a post or a
\* comment that is gone answers 404 whatever post id the path gives.
C2_DeleteCascades ==
    /\ [][(Answers("destroy") /\ resp'.status = 204)
          => (/\ resp'.pk \in DOMAIN posts
              /\ DOMAIN posts' = DOMAIN posts \ {resp'.pk}
              /\ \A p \in DOMAIN posts' : posts'[p] = posts[p]
              /\ DOMAIN comments' =
                     {c \in DOMAIN comments : comments[c].post # resp'.pk}
              /\ \A c \in DOMAIN comments' : comments'[c] = comments[c])]_vars
    /\ [][/\ \A p \in 1..(nextPostId - 1) : p \notin DOMAIN posts => p \notin DOMAIN posts'
          /\ \A c \in 1..(nextCommentId - 1) :
                 c \notin DOMAIN comments => c \notin DOMAIN comments']_vars
    /\ [][/\ (Answers("retrieve") /\ resp'.pk \notin DOMAIN posts) => resp'.status = 404
          /\ (Answers("comment_detail") /\ resp'.method = "GET"
                  /\ resp'.cid \notin DOMAIN comments) => resp'.status = 404]_vars

\* A post was deleted that had a comment, and another post keeps its comment.
C2_Witness ==
    /\ resp.route = "destroy"
    /\ resp.status = 204
    /\ nextCommentId = 3
    /\ \E c \in DOMAIN comments : c \in 1..2 /\ comments[c].post \in DOMAIN posts
    /\ \E c \in 1..2 : c \notin DOMAIN comments

\* A text within the length limit of field f.
WithinLimit(f, txt) ==
    /\ f = "title" => Len(txt) <= TitleMaxLength
    /\ f = "author" => Len(txt) <= AuthorMaxLength

\* The keys of the full projection of a post.
PostKeys == {"id", "title", "content", "author", "created_at", "updated_at"}

\* C4 as stated: creating a post whose title, content and author are present
\* and within the length limits (and, here, not blank) answers 201 with those
\* three values, with id and both timestamps, updated_at equal to created_at,
\* and the post is stored under the generated id with the same values.
C4_AsStated ==
    (/\ resp.route = "create"
     /\ DOMAIN resp.data = PostWritable
     /\ \A f \in PostWritable :
            /\ WithinLimit(f, resp.data[f].str)
            /\ Strip(resp.data[f].str) # <<>>)
    => (/\ resp.status = 201
        /\ DOMAIN resp.body = PostKeys
        /\ \A f \in PostWritable : resp.body[f] = resp.data[f].str
        /\ resp.body.updated_at = resp.body.created_at
        /\ resp.body.id \in DOMAIN posts
        /\ \A f \in PostWritable : posts[resp.body.id][f] = resp.data[f].str)

\* C4, amended: creating a post whose title, content and author are present,
\* not blank once leading and trailing whitespace is removed, and then within
\* the length limits, answers 201 with those three values with the surrounding
\* whitespace removed, with id and both timestamps, updated_at not earlier than
\* created_at; the post is stored under the generated id and GET of an existing
\* post answers 200 with the stored values.
C4_CreateThenRetrieve ==
    /\ (/\ resp.route = "create"
        /\ DOMAIN resp.data = PostWritable
        /\ \A f \in PostWritable :
               /\ Strip(resp.data[f].str) # <<>>
               /\ WithinLimit(f, Strip(resp.data[f].str)))
       => (/\ resp.status = 201
           /\ DOMAIN resp.body = PostKeys
           /\ \A f \in PostWritable : resp.body[f] = Strip(resp.data[f].str)
           /\ resp.body.created_at <= resp.body.updated_at
           /\ resp.body.id \in DOMAIN posts
           /\ \A f \in PostKeys \ {"id"} : posts[resp.body.id][f] = resp.body[f])
    /\ (resp.route = "retrieve" /\ resp.pk \in DOMAIN posts)
       => (/\ resp.status = 200
           /\ DOMAIN resp.body = PostKeys
           /\ resp.body.id = resp.pk
           /\ \A f \in PostKeys \ {"id"} : resp.body[f] = posts[resp.pk][f])

\* A post was created from a padded title and its two clock reads differ.
C4_Witness ==
    /\ resp.route = "create"
    /\ resp.status = 201
    /\ resp.data.title = JStr(vPadB)
    /\ resp.body.title = vB
    /\ resp.body.created_at < resp.body.updated_at

\* A text a text field accepts: not blank once the surrounding whitespace is
\* removed, and then within the limit of the field.
Accepted(f, v) ==
    /\ ~IsNull(v)
    /\ Strip(v.str) # <<>>
    /\ WithinLimit(f, Strip(v.str))

\* C5 as stated: a PATCH answered 200 with the fields S sets exactly the
\* fields in S to the supplied values; every field of the post not in S, every
\* other post and every comment keep their values.
C5_AsStated ==
    [][(Answers("partial_update") /\ resp'.status = 200)
       => (/\ DOMAIN posts' = DOMAIN posts
           /\ \A f \in DOMAIN resp'.data : posts'[resp'.pk][f] = resp'.data[f].str
           /\ \A f \in (PostKeys \ {"id"}) \ DOMAIN resp'.data :
                  posts'[resp'.pk][f] = posts[resp'.pk][f]
           /\ \A p \in DOMAIN posts \ {resp'.pk} : posts'[p] = posts[p]
           /\ comments' = comments)]_vars

\* C5, amended: a PATCH answered 200 with the fields S sets exactly the fields
\* in S to the supplied values with leading and trailing whitespace removed,
\* and sets updated_at to the time of the write, not earlier than it was;
\* title, content and author not in S, created_at, every other post and every
\* comment keep their values. A PATCH of an existing post whose supplied
\* fields are all accepted is answered 200.
C5_PatchSetsOnlySupplied ==
    /\ [][(Answers("partial_update") /\ resp'.status = 200)
          => (/\ DOMAIN posts' = DOMAIN posts
              /\ \A f \in DOMAIN resp'.data :
                     posts'[resp'.pk][f] = Strip(resp'.data[f].str)
              /\ \A f \in (PostKeys \ {"id", "updated_at"}) \ DOMAIN resp'.data :
                     posts'[resp'.pk][f] = posts[resp'.pk][f]
              /\ posts'[resp'.pk].updated_at = now'
              /\ posts'[resp'.pk].updated_at >= posts[resp'.pk].updated_at
              /\ \A p \in DOMAIN posts \ {resp'.pk} : posts'[p] = posts[p]
              /\ comments' = comments)]_vars
    /\ [][(/\ Answers("partial_update")
           /\ resp'.pk \in DOMAIN posts
           /\ \A f \in DOMAIN resp'.data : Accepted(f, resp'.data[f]))
          => resp'.status = 200]_vars

\* A PATCH of the author alone changed it, on a post whose title is not the
\* one it was created with, while another post and a comment are stored.
C5_Witness ==
    /\ resp.route = "partial_update"
    /\ resp.status = 200
    /\ DOMAIN resp.data = {"author"}
    /\ resp.data.author = JStr(vPadB)
    /\ posts[resp.pk].title = vB
    /\ posts[resp.pk].author = vB
    /\ DOMAIN posts # {resp.pk}
    /\ DOMAIN comments # {}

\* C6: a PUT on an existing post whose title, content and author are all
\* present and accepted answers 200 and replaces all three (whitespace
\* removed); with any of them absent or not accepted it answers 400 and the
\* tables, updated_at included, are unchanged; on an id that does not exist it
\* answers 404 and changes nothing.
C6_PutNeedsAllFields ==
    [][Answers("update")
       => IF resp'.pk \notin DOMAIN posts
          THEN resp'.status = 404 /\ posts' = posts /\ comments' = comments
          ELSE IF /\ PostWritable \subseteq DOMAIN resp'.data
                  /\ \A f \in PostWritable : Accepted(f, resp'.data[f])
          THEN /\ resp'.status = 200
               /\ DOMAIN posts' = DOMAIN posts
               /\ \A f \in PostWritable :
                      posts'[resp'.pk][f] = Strip(resp'.data[f].str)
               /\ posts'[resp'.pk].created_at = posts[resp'.pk].created_at
               /\ \A p \in DOMAIN posts \ {resp'.pk} : posts'[p] = posts[p]
          ELSE /\ resp'.status = 400
               /\ posts' = posts
               /\ comments' = comments]_vars

\* A PUT without the author was answered 400 on a post that exists.
C6_Witness ==
    /\ resp.route = "update"
    /\ resp.status = 400
    /\ resp.pk \in DOMAIN posts
    /\ DOMAIN resp.data = {"title", "content"}
    /\ DOMAIN resp.body = {"author"}
    /\ posts[resp.pk].title = vB

\* The keys of the full projection of a comment.
CommentKeys == {"id", "content", "author", "created_at"}

\* C7: creating a post, or a comment on an existing post, with a non-empty set
\* M of the required fields absent and the present fields accepted, answers
\* 400 with an error mapping whose keys are exactly M and inserts no row.
C7_MissingFieldsNamed ==
    [][/\ (/\ Answers("create")
           /\ PostWritable \ DOMAIN resp'.data # {}
           /\ \A f \in DOMAIN resp'.data : Accepted(f, resp'.data[f]))
          => (/\ resp'.status = 400
              /\ DOMAIN resp'.body = PostWritable \ DOMAIN resp'.data
              /\ posts' = posts /\ comments' = comments
              /\ nextPostId' = nextPostId /\ nextCommentId' = nextCommentId)
       /\ (/\ Answers("comments")
           /\ resp'.method = "POST"
           /\ resp'.pk \in DOMAIN posts
           /\ CommentWritable \ DOMAIN resp'.data # {}
           /\ \A f \in DOMAIN resp'.data : Accepted(f, resp'.data[f]))
          => (/\ resp'.status = 400
              /\ DOMAIN resp'.body = CommentWritable \ DOMAIN resp'.data
              /\ posts' = posts /\ comments' = comments
              /\ nextPostId' = nextPostId /\ nextCommentId' = nextCommentId)]_vars

\* A post body with the title alone was answered 400 naming content and author.
C7_Witness ==
    /\ resp.route = "create"
    /\ resp.status = 400
    /\ DOMAIN resp.data = {"title"}
    /\ DOMAIN resp.body = {"content", "author"}

\* C8: GET and POST on /posts/{id}/comments/ with a post id that does not
\* exist answer 404, whatever the body of the POST, and insert no comment.
C8_CommentsOfMissingPost ==
    [][(Answers("comments") /\ resp'.pk \notin DOMAIN posts)
       => (/\ resp'.status = 404
           /\ comments' = comments
           /\ nextCommentId' = nextCommentId)]_vars

\* A comment body that would not validate was answered 404 on a missing post.
C8_Witness ==
    /\ resp.route = "comments"
    /\ resp.method = "POST"
    /\ resp.status = 404
    /\ resp.pk \notin DOMAIN posts
    /\ DOMAIN resp.data = {"author"}
    /\ resp.data.author = JStr(vLongAuthor)

\* C9: for an existing post P, GET /posts/P/comments/ answers 200 with a
\* sequence that holds each comment whose parent is P once, in full
\* projection, and nothing else; it is empty when P has no comment.
C9_ListsExactlyOwnComments ==
    [][(Answers("comments") /\ resp'.method = "GET" /\ resp'.pk \in DOMAIN posts)
       => LET own == {c \in DOMAIN comments : comments[c].post = resp'.pk}
          IN  /\ resp'.status = 200
              /\ Len(resp'.body) = Cardinality(own)
              /\ {resp'.body[i].id : i \in 1..Len(resp'.body)} = own
              /\ \A i \in 1..Len(resp'.body) :
                     /\ DOMAIN resp'.body[i] = CommentKeys
                     /\ \A f \in CommentKeys \ {"id"} :
                            resp'.body[i][f] = comments[resp'.body[i].id][f]
              /\ comments' = comments]_vars

\* The list of a post's comments left out the comment of another post.
C9_Witness ==
    /\ resp.route = "comments"
    /\ resp.method = "GET"
    /\ resp.status = 200
    /\ Len(resp.body) = 1
    /\ \E c \in DOMAIN comments : comments[c].post # resp.pk

\* C10: the post list comes in descending created_at order and the comments
\* of a post in ascending created_at order, and a PUT or PATCH changes no
\* post's created_at, so it moves no post in the list.
C10_ListOrder ==
    [][/\ (Answers("list") /\ resp'.status = 200)
          => \A i, j \in 1..Len(resp'.body.results) : i < j =>
                 posts[resp'.body.results[i].id].created_at
                     >= posts[resp'.body.results[j].id].created_at
       /\ (Answers("comments") /\ resp'.method = "GET" /\ resp'.status = 200)
          => \A i, j \in 1..Len(resp'.body) : i < j =>
                 resp'.body[i].created_at <= resp'.body[j].created_at
       /\ (Answers("update") \/ Answers("partial_update"))
          => (/\ DOMAIN posts' = DOMAIN posts
              /\ \A p \in DOMAIN posts : posts'[p].created_at = posts[p].created_at)]_vars

\* The list shows the newer post first although the older one was updated
\* after the newer one was created.
C10_Witness ==
    /\ resp.route = "list"
    /\ resp.status = 200
    /\ Len(resp.body.results) = 2
    /\ LET first == resp.body.results[1].id
           second == resp.body.results[2].id
       IN  /\ posts[first].created_at > posts[second].created_at
           /\ posts[second].updated_at > posts[second].created_at
           /\ posts[second].updated_at >= posts[first].updated_at

\* C3: every stored comment references a post that is stored, also when
\* requests interleave at the database calls: a comment whose post was deleted
\* after the handler looked it up is not inserted and the request fails, and a
\* DELETE that commits leaves no comment of its post, whenever it was inserted.
C3_NoOrphanComment ==
    /\ [](\A c \in DOMAIN comments : comments[c].post \in DOMAIN posts)
    /\ [][(Answers("comments") /\ resp'.method = "POST" /\ resp'.pk \notin DOMAIN posts)
          => (resp'.status \in {400, 404, 500} /\ comments' = comments)]_vars
    /\ [][(Answers("destroy") /\ resp'.status = 204)
          => (/\ resp'.pk \notin DOMAIN posts'
              /\ \A c \in DOMAIN comments' : comments'[c].post # resp'.pk)]_vars

\* A valid comment for a post that was deleted after the lookup was refused,
\* and the comment inserted on that post before the delete is gone.
C3_Witness ==
    /\ resp.route = "comments"
    /\ resp.method = "POST"
    /\ resp.status = 500
    /\ resp.pk \notin DOMAIN posts
    /\ nextCommentId = 2
    /\ comments = <<>>

----------------------------------------------------------------------------
\* C11: with n posts in storage the first page of GET /posts/ (the page that
\* has no previous page) carries count = n and min(n, 10) results, and its next
\* indicator is non-null exactly when n > 10.
C11_FirstPage ==
    (resp.route = "list" /\ resp.status = 200 /\ resp.body.previous = JNull) =>
        LET n == Cardinality(DOMAIN posts)
        IN  /\ resp.body.count = n
            /\ Len(resp.body.results) = (IF n < PageSize THEN n ELSE PageSize)
            /\ (resp.body.next # JNull) <=> (n > PageSize)

\* Eleven posts: ten results, a next page, count 11.
C11_Witness ==
    /\ resp.route = "list" /\ resp.status = 200 /\ resp.body.previous = JNull
    /\ Cardinality(DOMAIN posts) = PageSize + 1
    /\ Len(resp.body.results) = PageSize
    /\ resp.body.next # JNull
    /\ resp.body.count = PageSize + 1


----------------------------------------------------------------------------
\* C12: ids are unique among the stored posts and among the stored comments
\* (every stored id was handed out once: a create adds one row under an id no
\* row has or had), and no request changes the id or created_at of an existing
\* post: a PUT or PATCH answered 200, with or without id, created_at and
\* updated_at in its body, keeps the rows under their ids and answers with the
\* id of the path and the created_at the post had.
C12_IdAndCreatedAtFixed ==
    /\ [](/\ DOMAIN posts \subseteq 1..(nextPostId - 1)
          /\ DOMAIN comments \subseteq 1..(nextCommentId - 1))
    /\ [][/\ nextPostId' >= nextPostId
          /\ nextCommentId' >= nextCommentId
          /\ \A p \in DOMAIN posts \cap DOMAIN posts' :
                 posts'[p].created_at = posts[p].created_at]_vars
    /\ [][(Ready /\ resp'.status = 201)
          => IF resp'.route = "create"
             THEN /\ resp'.body.id \notin 1..(nextPostId - 1)
                  /\ DOMAIN posts' = DOMAIN posts \cup {resp'.body.id}
                  /\ comments' = comments
             ELSE /\ resp'.body.id \notin 1..(nextCommentId - 1)
                  /\ DOMAIN comments' = DOMAIN comments \cup {resp'.body.id}
                  /\ posts' = posts]_vars
    /\ [][(Ready /\ resp'.route \in {"update", "partial_update"} /\ resp'.status = 200)
          => (/\ DOMAIN posts' = DOMAIN posts
              /\ resp'.body.id = resp'.pk
              /\ resp'.body.created_at = posts[resp'.pk].created_at
              /\ posts'[resp'.pk].created_at = posts[resp'.pk].created_at)]_vars

\* A PATCH carrying id, created_at and updated_at was answered 200 on a post
\* that has been written after its creation, with another post stored.
C12_Witness ==
    /\ resp.route = "partial_update"
    /\ resp.status = 200
    /\ "created_at" \in DOMAIN resp.data
    /\ "id" \in DOMAIN resp.data
    /\ resp.body.id = resp.pk
    /\ posts[resp.pk].created_at = 0
    /\ posts[resp.pk].updated_at = MaxTime
    /\ DOMAIN posts # {resp.pk}

----------------------------------------------------------------------------
\* C13: every PUT or PATCH of a post answered 200 sets its updated_at to the
\* clock value read for that write and answers with it; no step lowers the
\* updated_at of a stored post; updated_at >= created_at for every stored post
\* in every reachable state; a PUT or PATCH answered 400 or 404 leaves every
\* row, updated_at included, as it was.
C13_UpdatedAtFollowsWrites ==
    /\ [](\A p \in DOMAIN posts : posts[p].updated_at >= posts[p].created_at)
    /\ [][\A p \in DOMAIN posts \cap DOMAIN posts' :
              posts'[p].updated_at >= posts[p].updated_at]_vars
    /\ [][(Ready /\ resp'.route \in {"update", "partial_update"} /\ resp'.status = 200)
          => (/\ now' >= now
              /\ posts'[resp'.pk].updated_at = now'
              /\ resp'.body.updated_at = now')]_vars
    /\ [][(Ready /\ resp'.route \in {"update", "partial_update"}
              /\ resp'.status \in {400, 404})
          => (posts' = posts /\ now' = now)]_vars

\* A PUT answered 200 moved updated_at past created_at, after the clock had
\* moved on, while another post keeps the updated_at it was created with.
C13_Witness ==
    /\ resp.route = "update"
    /\ resp.status = 200
    /\ posts[resp.pk].created_at = 0
    /\ posts[resp.pk].updated_at = MaxTime
    /\ resp.body.updated_at = MaxTime
    /\ \E p \in DOMAIN posts : p # resp.pk /\ posts[p].updated_at = posts[p].created_at

----------------------------------------------------------------------------
\* C14: from every state reached through requests and earlier runs of the
\* seed script, a run of main() completes, and a run that follows a completed
\* run in a row ends with storage (posts, comments, accounts) as it found it.
C14_SeedIdempotent ==
    /\ script.pc # "crashed"
    /\ (script.pc = "done" /\ script.inrow) => script.after = script.before

----------------------------------------------------------------------------
\* C15: with PATCH requests interleaved, the write of a PATCH answered 200
\* leaves every field its body did not supply as storage held it just before
\* the write, so that of two requests on one post with disjoint fields, each
\* having read the post before either wrote, both values are in storage once
\* both are done.
C15_PatchStaysPartial ==
    [][\A w \in Workers :
          (/\ inflight[w].pc = "patch_save"
           /\ inflight'[w] = Idle
           /\ resp'.status = 200
           /\ inflight[w].pk \in DOMAIN posts)
          => \A f \in PostWritable \ DOMAIN inflight[w].data :
                 posts'[inflight[w].pk][f] = posts[inflight[w].pk][f]]_vars

============================================================================
